---- MODULE Spec2Model ----
(***************************************************************************)
(* The lore retrieval engine of lore-rag: the recursive JSON parser        *)
(* (parser.rs), the intent classifier (types.rs), the retrieval step       *)
(* (retrieval.rs) and the engine that owns the corpus and the index        *)
(* (lib.rs).                                                               *)
(*                                                                         *)
(* Text is a sequence of one-character strings, so that joining, substring *)
(* search and lowercasing are computed and not assumed.  A JSON value is a *)
(* record [t, v]: t is "num", "str", "arr" or "obj"; v is <<>> for a       *)
(* number, the characters of a string, the elements of an array, or the    *)
(* <<key, value>> entries of an object in the order of the JSON text.      *)
(***************************************************************************)
EXTENDS Integers, Sequences, FiniteSets, TLC

VARIABLES items, index, source, failed, last, query, detected

vars == <<items, index, source, failed, last, query, detected>>

-----------------------------------------------------------------------------
(* Bounds of the model *)

\* Size of an input document: one per JSON value, one more for an entity
\* whose name or description is unusual (see WeirdLabels).
MaxSize == 3

\* Largest top_k a caller passes to query.
MaxTopK == 2

\* Distances the ANN search reports are 0..MaxDist.
MaxDist == 1

\* Number of pieces a classified query is concatenated from.
MaxPieces == 2

-----------------------------------------------------------------------------
(* Text *)

\* [String]::join
RECURSIVE Join(_, _)
Join(ss, sep) ==
    IF ss = <<>> THEN <<>>
    ELSE IF Len(ss) = 1 THEN ss[1]
    ELSE ss[1] \o sep \o Join(Tail(ss), sep)

StartsAt(s, i, pat) ==
    /\ i + Len(pat) - 1 <= Len(s)
    /\ \A k \in 1..Len(pat) : s[i + k - 1] = pat[k]

\* str::contains
Contains(s, pat) == \E i \in 1..(Len(s) + 1) : StartsAt(s, i, pat)

\* str::matches(pat).count(): occurrences found left to right, not overlapping
RECURSIVE CountFrom(_, _, _)
CountFrom(s, i, pat) ==
    IF i + Len(pat) - 1 > Len(s) THEN 0
    ELSE IF StartsAt(s, i, pat) THEN 1 + CountFrom(s, i + Len(pat), pat)
    ELSE CountFrom(s, i + 1, pat)

CountOccurrences(s, pat) == CountFrom(s, 1, pat)

Sep == <<" ", ">", " ">>
ColonSpace == <<":", " ">>

-----------------------------------------------------------------------------
(* JSON values *)

JNum == [t |-> "num", v |-> <<>>]
JStr(s) == [t |-> "str", v |-> s]
JArr(es) == [t |-> "arr", v |-> es]
JObj(fs) == [t |-> "obj", v |-> fs]

\* serde_json::Map::contains_key
HasKey(map, key) == \E i \in 1..Len(map) : map[i][1] = key

\* serde_json::Map::get, for a key that is present
Get(map, key) == map[CHOOSE i \in 1..Len(map) : map[i][1] = key][2]

-----------------------------------------------------------------------------
(* Item kinds and items *)

ItemType == {"World", "Region", "Location", "Character", "Event", "Faction", "Unknown"}

Item(id, name, text, vec, item_type, parent_path, hierarchy_level) ==
    [id |-> id, name |-> name, text |-> text, vec |-> vec,
     item_type |-> item_type, parent_path |-> parent_path,
     hierarchy_level |-> hierarchy_level]

\* The encoder is a pure function of the text; its vector is kept abstract.
EmbedVec(text) == <<"emb", text>>

-----------------------------------------------------------------------------
(* Errors *)

NoErr == "ok"
ErrName == "The 'name' field must be a string"
ErrEmbed == "Error embedding"
ErrEmpty == "No items found in JSON. Ensure objects have a 'name' field."
ErrJson == "Invalid JSON"
ErrRead == "Error reading file"
ErrNoIndex == "No index loaded. Call load_from_file() first."
ErrEmbedQuery == "Error embedding query"

-----------------------------------------------------------------------------
(* parser.rs *)

hierarchy_keys ==
    << <<"worlds", "World">>, <<"regions", "Region">>,
       <<"locations", "Location">>, <<"characters", "Character">>,
       <<"events", "Event">>, <<"factions", "Faction">> >>

\* The text an entity is embedded under.
EntityText(map) ==
    LET name == Get(map, "name").v
        desc == IF HasKey(map, "description") /\ Get(map, "description").t = "str"
                THEN Get(map, "description").v
                ELSE <<>>
    IN IF desc = <<>> THEN name ELSE name \o ColonSpace \o desc

\* Faulty variant: every key of the object is descended into.
KeysToExploreAll(map) ==
    SelectSeq(hierarchy_keys, LAMBDA hk : HasKey(map, hk[1]))
    \o [i \in 1..Len(map) |-> <<map[i][1], "Unknown">>]

\* Faulty variant: the keys are visited in the order of the JSON text.
KeysInJsonOrder(map) ==
    LET present == SelectSeq(map, LAMBDA f : \E n \in 1..Len(hierarchy_keys) :
                                               hierarchy_keys[n][1] = f[1])
    IN [i \in 1..Len(present) |->
           hierarchy_keys[CHOOSE n \in 1..Len(hierarchy_keys) :
                              hierarchy_keys[n][1] = present[i][1]]]

\* The keys of an object that the walker descends into, in the order it
\* visits them.
KeysToExplore(map) ==
    SelectSeq(hierarchy_keys, LAMBDA hk : HasKey(map, hk[1]))

\* collect_items: the walk over `value`, with `out` the items found so far,
\* `path` the ancestor names and `bad` the texts the encoder fails on.
\* The result is [err, out]; an error ends the walk at once.
\* Faulty variant: a name that is not a string is let through.
NameNeverRejected(map) == FALSE

\* The object has a name that is not a string.
NameRejected(map) == HasKey(map, "name") /\ Get(map, "name").t # "str"

\* Faulty variant: the depth of an item is its id.
NewItemDepthFromId(map, out, path, current_type) ==
    Item(Len(out), Get(map, "name").v, EntityText(map), EmbedVec(EntityText(map)),
         current_type, Join(path, Sep), Len(out))

\* The item of the entity `map`, found when `out` holds the items so far.
NewItem(map, out, path, current_type) ==
    Item(Len(out), Get(map, "name").v, EntityText(map), EmbedVec(EntityText(map)),
         current_type, Join(path, Sep), Len(path))

RECURSIVE collect_items(_, _, _, _, _)
RECURSIVE collect_keys(_, _, _, _, _)
RECURSIVE collect_array(_, _, _, _, _)

collect_items(value, out, path, current_type, bad) ==
    IF value.t = "obj" THEN
        LET map == value.v
            named == HasKey(map, "name")
        IN IF NameRejected(map)
           THEN [err |-> ErrName, out |-> out]
           ELSE IF named /\ EntityText(map) \in bad
           THEN [err |-> ErrEmbed, out |-> out]
           ELSE IF named
           THEN collect_keys(map, KeysToExplore(map),
                             Append(out, NewItem(map, out, path, current_type)),
                             Append(path, Get(map, "name").v), bad)
           ELSE collect_keys(map, KeysToExplore(map), out, path, bad)
    ELSE IF value.t = "arr" THEN
        collect_array(value.v, out, path, current_type, bad)
    ELSE [err |-> NoErr, out |-> out]

collect_keys(map, keys, out, path, bad) ==
    IF keys = <<>> THEN [err |-> NoErr, out |-> out]
    ELSE LET r == collect_items(Get(map, keys[1][1]), out, path, keys[1][2], bad)
         IN IF r.err # NoErr THEN r
            ELSE collect_keys(map, Tail(keys), r.out, path, bad)

\* Faulty variant: the elements of an array lose the kind of the array.
collect_array_unknown(arr, out, path, current_type, bad) ==
    IF arr = <<>> THEN [err |-> NoErr, out |-> out]
    ELSE LET r == collect_items(arr[1], out, path, "Unknown", bad)
         IN IF r.err # NoErr THEN r
            ELSE collect_array(Tail(arr), r.out, path, current_type, bad)

collect_array(arr, out, path, current_type, bad) ==
    IF arr = <<>> THEN [err |-> NoErr, out |-> out]
    ELSE LET r == collect_items(arr[1], out, path, current_type, bad)
         IN IF r.err # NoErr THEN r
            ELSE collect_array(Tail(arr), r.out, path, current_type, bad)

-----------------------------------------------------------------------------
(* lib.rs: the engine *)

NoIndex == [present |-> FALSE, nodes |-> <<>>]

\* Faulty variant: the first item is not inserted.
BuildIndexSkipsFirst(its) ==
    [present |-> TRUE,
     nodes |-> [i \in 1..(Len(its) - 1) |-> <<its[i + 1].vec, its[i + 1].id>>]]

\* Hnsw::new followed by one insert of (vec, id) per item
BuildIndex(its) ==
    [present |-> TRUE,
     nodes |-> [i \in 1..Len(its) |-> <<its[i].vec, its[i].id>>]]

\* Faulty variant: the walk appends to the corpus the engine holds.
load_from_json_value_appending(eng, json, bad) ==
    LET r == collect_items(json, eng.items, <<>>, "Unknown", bad)
    IN IF r.err # NoErr
       THEN [err |-> r.err, eng |-> eng]
       ELSE IF r.out = <<>>
       THEN [err |-> ErrEmpty, eng |-> eng]
       ELSE [err |-> NoErr,
             eng |-> [items |-> r.out, index |-> BuildIndex(r.out)]]

\* Faulty variant: the items found before an error are installed.
load_from_json_value_partial(eng, json, bad) ==
    LET r == collect_items(json, <<>>, <<>>, "Unknown", bad)
    IN IF r.err # NoErr
       THEN [err |-> r.err, eng |-> [items |-> r.out, index |-> eng.index]]
       ELSE IF r.out = <<>>
       THEN [err |-> ErrEmpty, eng |-> eng]
       ELSE [err |-> NoErr,
             eng |-> [items |-> r.out, index |-> BuildIndex(r.out)]]

\* Faulty variant: the index is installed before the corpus is found empty.
load_from_json_value_early_index(eng, json, bad) ==
    LET r == collect_items(json, <<>>, <<>>, "Unknown", bad)
    IN IF r.err # NoErr
       THEN [err |-> r.err, eng |-> eng]
       ELSE IF r.out = <<>>
       THEN [err |-> ErrEmpty, eng |-> [items |-> eng.items, index |-> BuildIndex(r.out)]]
       ELSE [err |-> NoErr,
             eng |-> [items |-> r.out, index |-> BuildIndex(r.out)]]

\* LoreEngine::load_from_json_value on the engine eng = [items, index]:
\* the error (or NoErr) and the engine afterwards.
load_from_json_value(eng, json, bad) ==
    LET r == collect_items(json, <<>>, <<>>, "Unknown", bad)
    IN IF r.err # NoErr
       THEN [err |-> r.err, eng |-> eng]
       ELSE IF r.out = <<>>
       THEN [err |-> ErrEmpty, eng |-> eng]
       ELSE [err |-> NoErr,
             eng |-> [items |-> r.out, index |-> BuildIndex(r.out)]]

\* load_from_json_str on a JSON text: str.valid says whether serde_json
\* accepts the text, str.value is the value it then yields.
load_from_json_str(eng, str, bad) ==
    IF ~str.valid THEN [err |-> ErrJson, eng |-> eng]
    ELSE load_from_json_value(eng, str.value, bad)

\* load_from_file on a file: file.readable says whether fs::read_to_string
\* succeeds, file.data is the text it then returns.
load_from_file(eng, file, bad) ==
    IF ~file.readable THEN [err |-> ErrRead, eng |-> eng]
    ELSE load_from_json_str(eng, file.data, bad)

\* ItemType::as_str: the text of a kind.
as_str(item_type) ==
    CASE item_type = "World" -> "World"
      [] item_type = "Region" -> "Region"
      [] item_type = "Location" -> "Location"
      [] item_type = "Character" -> "Character"
      [] item_type = "Event" -> "Event"
      [] item_type = "Faction" -> "Faction"
      [] item_type = "Unknown" -> "Unknown"

RECURSIVE CountTypes(_, _)

\* Faulty variant: a kind seen for the first time is entered with 1 and
\* then incremented.
CountTypesFromOne(its, type_counts) ==
    IF its = <<>> THEN type_counts
    ELSE LET type_str == as_str(Head(its).item_type)
             old == IF type_str \in DOMAIN type_counts THEN type_counts[type_str]
                    ELSE 1
         IN CountTypes(Tail(its),
                       [k \in DOMAIN type_counts \cup {type_str} |->
                           IF k = type_str THEN old + 1 ELSE type_counts[k]])

\* The loop of stats over the items: `*entry(type_str).or_insert(0) += 1`.
CountTypes(its, type_counts) ==
    IF its = <<>> THEN type_counts
    ELSE LET type_str == as_str(Head(its).item_type)
             old == IF type_str \in DOMAIN type_counts THEN type_counts[type_str]
                    ELSE 0
         IN CountTypes(Tail(its),
                       [k \in DOMAIN type_counts \cup {type_str} |->
                           IF k = type_str THEN old + 1 ELSE type_counts[k]])

\* LoreEngine::stats
stats(eng) ==
    [total_items |-> Len(eng.items), type_counts |-> CountTypes(eng.items, <<>>)]

-----------------------------------------------------------------------------
(* types.rs: the intent classifier *)

Upper == <<"A", "B", "C", "D", "E", "F", "G", "H", "I", "J", "K", "L", "M",
           "N", "O", "P", "Q", "R", "S", "T", "U", "V", "W", "X", "Y", "Z", "É">>
Lower == <<"a", "b", "c", "d", "e", "f", "g", "h", "i", "j", "k", "l", "m",
           "n", "o", "p", "q", "r", "s", "t", "u", "v", "w", "x", "y", "z", "é">>

LowerChar(c) ==
    IF \E i \in 1..Len(Upper) : Upper[i] = c
    THEN Lower[CHOOSE i \in 1..Len(Upper) : Upper[i] = c]
    ELSE c

\* str::to_lowercase
to_lowercase(s) == [i \in 1..Len(s) |-> LowerChar(s[i])]

kw_personnage == <<"p", "e", "r", "s", "o", "n", "n", "a", "g", "e">>
kw_character == <<"c", "h", "a", "r", "a", "c", "t", "e", "r">>
kw_he_ros == <<"h", "é", "r", "o", "s">>
kw_roi == <<"r", "o", "i">>
kw_reine == <<"r", "e", "i", "n", "e">>
kw_empereur == <<"e", "m", "p", "e", "r", "e", "u", "r">>
kw_sultan == <<"s", "u", "l", "t", "a", "n">>
kw_archimage == <<"a", "r", "c", "h", "i", "m", "a", "g", "e">>
kw_lieu == <<"l", "i", "e", "u">>
kw_location == <<"l", "o", "c", "a", "t", "i", "o", "n">>
kw_endroit == <<"e", "n", "d", "r", "o", "i", "t">>
kw_cite_ == <<"c", "i", "t", "é">>
kw_ville == <<"v", "i", "l", "l", "e">>
kw_village == <<"v", "i", "l", "l", "a", "g", "e">>
kw_forteresse == <<"f", "o", "r", "t", "e", "r", "e", "s", "s", "e">>
kw_re_gion == <<"r", "é", "g", "i", "o", "n">>
kw_region == <<"r", "e", "g", "i", "o", "n">>
kw_royaume == <<"r", "o", "y", "a", "u", "m", "e">>
kw_empire == <<"e", "m", "p", "i", "r", "e">>
kw_territoire == <<"t", "e", "r", "r", "i", "t", "o", "i", "r", "e">>
kw_e_ve_nement == <<"é", "v", "é", "n", "e", "m", "e", "n", "t">>
kw_event == <<"e", "v", "e", "n", "t">>
kw_quand == <<"q", "u", "a", "n", "d">>
kw_guerre == <<"g", "u", "e", "r", "r", "e">>
kw_bataille == <<"b", "a", "t", "a", "i", "l", "l", "e">>
kw_conflit == <<"c", "o", "n", "f", "l", "i", "t">>
kw_histoire == <<"h", "i", "s", "t", "o", "i", "r", "e">>
kw_faction == <<"f", "a", "c", "t", "i", "o", "n">>
kw_guilde == <<"g", "u", "i", "l", "d", "e">>
kw_organisation == <<"o", "r", "g", "a", "n", "i", "s", "a", "t", "i", "o", "n">>
kw_ordre == <<"o", "r", "d", "r", "e">>
kw_monde == <<"m", "o", "n", "d", "e">>
kw_world == <<"w", "o", "r", "l", "d">>
kw_univers == <<"u", "n", "i", "v", "e", "r", "s">>

None == "None"

\* The query holds a keyword of the Character group.
MatchesCharacter(query_lower) ==
    \/ Contains(query_lower, kw_personnage)
    \/ Contains(query_lower, kw_character)
    \/ Contains(query_lower, kw_he_ros)
    \/ Contains(query_lower, kw_roi)
    \/ Contains(query_lower, kw_reine)
    \/ Contains(query_lower, kw_empereur)
    \/ Contains(query_lower, kw_sultan)
    \/ Contains(query_lower, kw_archimage)

\* The query holds a keyword of the Location group.
MatchesLocation(query_lower) ==
    \/ Contains(query_lower, kw_lieu)
    \/ Contains(query_lower, kw_location)
    \/ Contains(query_lower, kw_endroit)
    \/ Contains(query_lower, kw_cite_)
    \/ Contains(query_lower, kw_ville)
    \/ Contains(query_lower, kw_village)
    \/ Contains(query_lower, kw_forteresse)

\* The query holds a keyword of the Region group.
MatchesRegion(query_lower) ==
    \/ Contains(query_lower, kw_re_gion)
    \/ Contains(query_lower, kw_region)
    \/ Contains(query_lower, kw_royaume)
    \/ Contains(query_lower, kw_empire)
    \/ Contains(query_lower, kw_territoire)

\* The query holds a keyword of the Event group.
MatchesEvent(query_lower) ==
    \/ Contains(query_lower, kw_e_ve_nement)
    \/ Contains(query_lower, kw_event)
    \/ Contains(query_lower, kw_quand)
    \/ Contains(query_lower, kw_guerre)
    \/ Contains(query_lower, kw_bataille)
    \/ Contains(query_lower, kw_conflit)
    \/ Contains(query_lower, kw_histoire)

\* The query holds a keyword of the Faction group.
MatchesFaction(query_lower) ==
    \/ Contains(query_lower, kw_faction)
    \/ Contains(query_lower, kw_guilde)
    \/ Contains(query_lower, kw_organisation)
    \/ Contains(query_lower, kw_ordre)

\* The query holds a keyword of the World group.
MatchesWorld(query_lower) ==
    \/ Contains(query_lower, kw_monde)
    \/ Contains(query_lower, kw_world)
    \/ Contains(query_lower, kw_univers)

\* Faulty variant: the Location group is tried before the Character group.
detect_location_first(q) ==
    LET query_lower == to_lowercase(q)
    IN IF MatchesLocation(query_lower) THEN "Location"
       ELSE IF MatchesCharacter(query_lower) THEN "Character"
       ELSE IF MatchesRegion(query_lower) THEN "Region"
       ELSE IF MatchesEvent(query_lower) THEN "Event"
       ELSE IF MatchesFaction(query_lower) THEN "Faction"
       ELSE IF MatchesWorld(query_lower) THEN "World"
       ELSE None

\* detect_item_type_from_query: the kind, or None
detect_item_type_from_query(q) ==
    LET query_lower == to_lowercase(q)
    IN IF MatchesCharacter(query_lower) THEN "Character"
       ELSE IF MatchesLocation(query_lower) THEN "Location"
       ELSE IF MatchesRegion(query_lower) THEN "Region"
       ELSE IF MatchesEvent(query_lower) THEN "Event"
       ELSE IF MatchesFaction(query_lower) THEN "Faction"
       ELSE IF MatchesWorld(query_lower) THEN "World"
       ELSE None

-----------------------------------------------------------------------------
(* retrieval.rs *)

\* The number of neighbours asked of the index.
SearchK(filter_type, top_k) == IF filter_type # None THEN top_k * 3 ELSE top_k

\* The first n elements of a sequence (Iterator::take).
Take(s, n) == SubSeq(s, 1, IF n < Len(s) THEN n ELSE Len(s))

\* Faulty variant: the hits are cut to top_k before the kind filter.
FilteredResultsCutFirst(res, its, filter_type, top_k) ==
    LET resolved == SelectSeq(res, LAMBDA nb : nb.d_id + 1 \in 1..Len(its))
        pairs == [i \in 1..Len(resolved) |->
                     <<its[resolved[i].d_id + 1], resolved[i]>>]
    IN SelectSeq(Take(pairs, top_k), LAMBDA p :
                     IF filter_type # None THEN p[1].item_type = filter_type
                     ELSE TRUE)

\* The hits kept: those whose id resolves to an item and whose item passes
\* the kind filter, cut to top_k.  Each is <<item, neighbor>>.
FilteredResults(res, its, filter_type, top_k) ==
    LET resolved == SelectSeq(res, LAMBDA nb : nb.d_id + 1 \in 1..Len(its))
        pairs == [i \in 1..Len(resolved) |->
                     <<its[resolved[i].d_id + 1], resolved[i]>>]
        kept == SelectSeq(pairs, LAMBDA p :
                     IF filter_type # None THEN p[1].item_type = filter_type
                     ELSE TRUE)
    IN Take(kept, top_k)

\* One output line per kept hit, ranked from 1.
ResultLines(filtered) ==
    [i \in 1..Len(filtered) |->
        [line |-> "hit", rank |-> i, item |-> filtered[i][1],
         distance |-> filtered[i][2].distance]]

HeaderLine(kind) == [line |-> "Filter: {} only", kind |-> kind]
NoRelevantLine == [line |-> "No relevant items found."]
NoneOfTypeLine == [line |-> "No items of the requested type found."]

\* Faulty variant: the kept hits are looked at before the hits.
retrieve_context_kept_first(q, res, its, top_k) ==
    LET filter_type == detect_item_type_from_query(q)
        header == IF filter_type # None THEN <<HeaderLine(filter_type)>> ELSE <<>>
        filtered == FilteredResults(res, its, filter_type, top_k)
    IN IF filtered = <<>> THEN header \o <<NoneOfTypeLine>>
       ELSE IF res = <<>> THEN header \o <<NoRelevantLine>>
       ELSE header \o ResultLines(filtered)

\* retrieve_context, with `res` the neighbours hnsw.search returned: the
\* lines of the context string.
retrieve_context(q, res, its, top_k) ==
    LET filter_type == detect_item_type_from_query(q)
        header == IF filter_type # None THEN <<HeaderLine(filter_type)>> ELSE <<>>
        filtered == FilteredResults(res, its, filter_type, top_k)
    IN IF res = <<>> THEN header \o <<NoRelevantLine>>
       ELSE IF filtered = <<>> THEN header \o <<NoneOfTypeLine>>
       ELSE header \o ResultLines(filtered)

-----------------------------------------------------------------------------
(* hnsw_rs, as the engine uses it *)

IsAscending(res) ==
    \A i \in 1..Len(res), j \in 1..Len(res) :
        i < j => /\ res[i].d_id # res[j].d_id
                 /\ res[i].distance <= res[j].distance

\* Hnsw::search(qv, k, ef): at most k of the inserted nodes, each once,
\* nearest first.  The search is approximate: which nodes, and how many, is
\* the library's choice.
AnnResults(idx, k) ==
    LET ids == {idx.nodes[i][2] : i \in 1..Len(idx.nodes)}
        nbs == [d_id : ids, distance : 0..MaxDist]
        most == IF k < Cardinality(ids) THEN k ELSE Cardinality(ids)
    IN UNION {{res \in [1..n -> nbs] : IsAscending(res)} : n \in 0..most}

-----------------------------------------------------------------------------
(* Inputs *)

NmA == <<"a">>
NmB == <<"b">>
NmArrow == <<"a", " ", ">", " ", "b">>
TxD == <<"d">>

Field(key, value) == <<key, value>>

\* Entities as the spec describes them, and objects without a name.
PlainLabels ==
    { <<>>,
      <<Field("name", JStr(NmA))>>,
      <<Field("name", JStr(NmB))>> }

\* Unusual names and descriptions.
WeirdLabels ==
    { <<Field("name", JNum)>>,
      <<Field("name", JStr(<<>>))>>,
      <<Field("name", JStr(NmArrow))>>,
      <<Field("name", JStr(NmA)), Field("description", JStr(TxD))>>,
      <<Field("name", JStr(NmA)), Field("description", JNum)>>,
      <<Field("name", JStr(NmA)), Field("description", JStr(<<>>))>> }

\* Keys of generated objects: container keys at either end of the parser's
\* table, one in the middle, and one key the parser does not know.
InputKeys == {"worlds", "characters", "factions", "lore"}

\* The sequences of n distinct input keys.
KeySeqs(n) ==
    {ks \in [1..n -> InputKeys] : \A i \in 1..n, j \in 1..n : i # j => ks[i] # ks[j]}

\* The objects with the fields of a label of `labels` followed by the values
\* of a sequence of `elems` under distinct keys.
ObjectsOver(labels, elems) ==
    UNION {{JObj(l \o [i \in 1..m |-> Field(ks[i], es[i])]) :
               l \in labels, es \in {x \in elems : Len(x) = m}, ks \in KeySeqs(m)} :
           m \in 0..Cardinality(InputKeys)}

\* DocTables(n) = [docs, elems]: docs[k] is the set of JSON values of size k
\* and elems[k] the set of sequences of values of total size k, for k in 1..n.
RECURSIVE DocTables(_)
DocTables(n) ==
    IF n = 0 THEN [docs |-> <<>>, elems |-> <<>>]
    ELSE LET prev == DocTables(n - 1)
             ElemsOf(m) == IF m < 0 THEN {}
                           ELSE IF m = 0 THEN {<<>>}
                           ELSE prev.elems[m]
             docs_n ==
                 (IF n = 1 THEN {JNum} ELSE {})
                 \cup {JArr(es) : es \in ElemsOf(n - 1)}
                 \cup ObjectsOver(PlainLabels, ElemsOf(n - 1))
                 \cup ObjectsOver(WeirdLabels, ElemsOf(n - 2))
             DocsOf(k) == IF k = n THEN docs_n ELSE prev.docs[k]
             elems_n ==
                 UNION {{<<e>> \o es : e \in DocsOf(k), es \in ElemsOf(n - k)} : k \in 1..n}
         IN [docs |-> Append(prev.docs, docs_n), elems |-> Append(prev.elems, elems_n)]

\* {"factions":{"name":"a"},"events":{"name":"a"},"characters":{"name":"a"},
\*  "locations":{"name":"a"},"regions":{"name":"a"},"worlds":{"name":"a"}}
DocAllKeys ==
    JObj(<<Field("factions", JObj(<<Field("name", JStr(NmA))>>)),
           Field("events", JObj(<<Field("name", JStr(NmA))>>)),
           Field("characters", JObj(<<Field("name", JStr(NmA))>>)),
           Field("locations", JObj(<<Field("name", JStr(NmA))>>)),
           Field("regions", JObj(<<Field("name", JStr(NmA))>>)),
           Field("worlds", JObj(<<Field("name", JStr(NmA))>>))>>)

\* The values and sequences of values smaller than MaxSize.
Smaller == DocTables(MaxSize - 1)

SmallerDocs == UNION {Smaller.docs[n] : n \in 1..(MaxSize - 1)}

\* The sequences of values of total size n, for n below MaxSize.
SmallerElems(n) ==
    IF n < 0 THEN {} ELSE IF n = 0 THEN {<<>>} ELSE Smaller.elems[n]

\* The texts the encoder may fail on during one call.
BadSets == {{}, {NmB}}

NmAerda == <<"A", "e", "r", "d", "a">>
NmNorth == <<"N", "o", "r", "t", "h">>
NmArion == <<"A", "r", "i", "o", "n">>
TxFlat == <<"a", " ", "f", "l", "a", "t", " ", "w", "o", "r", "l", "d">>
TxKing == <<"k", "i", "n", "g">>

Entity(name, fs) == JObj(<<Field("name", JStr(name))>> \o fs)

\* {"worlds":[{"name":"Aerda","description":"a flat world","regions":
\*   [{"name":"North","characters":[{"name":"Arion","description":"king"}]}]}]}
DocAerda ==
    JObj(<<Field("worlds", JArr(<<
        JObj(<<Field("name", JStr(NmAerda)), Field("description", JStr(TxFlat)),
               Field("regions", JArr(<<
                   Entity(NmNorth, <<Field("characters", JArr(<<
                       JObj(<<Field("name", JStr(NmArion)),
                              Field("description", JStr(TxKing))>>)>>))>>)>>))>>)>>))>>)

\* {"characters":[{"name":"a"},{"name":"b"}]}
DocCharacters ==
    JObj(<<Field("characters", JArr(<<Entity(NmA, <<>>), Entity(NmB, <<>>)>>))>>)

\* {"factions":[{"name":"a"}],"characters":[{"name":"a"},{"name":"a","lore":{"name":"b"}}]}
DocMixed ==
    JObj(<<Field("factions", JArr(<<Entity(NmA, <<>>)>>)),
           Field("characters", JArr(<<Entity(NmA, <<>>),
               Entity(NmA, <<Field("lore", Entity(NmB, <<>>))>>)>>))>>)

\* {"a":1}
DocNoEntity == JObj(<<Field("a", JNum)>>)

\* {"worlds":[{"name":"a"},{"name":1}]}
DocBadName ==
    JObj(<<Field("worlds", JArr(<<Entity(NmA, <<>>), JObj(<<Field("name", JNum)>>)>>))>>)

EngineDocs == {DocAerda, DocCharacters, DocMixed, DocNoEntity, DocBadName}

\* Input documents given one by one: the generated ones smaller than MaxSize,
\* the engine's, and one with every container key, last key first.
ListedDocs == SmallerDocs \cup EngineDocs \cup {DocAllKeys}

\* JSON texts: those serde_json rejects, and those of the engine documents.
NoValue == JNum
Texts ==
    {[valid |-> FALSE, value |-> NoValue]}
    \cup {[valid |-> TRUE, value |-> j] : j \in {DocAerda, DocCharacters, DocNoEntity}}

\* Files: one that cannot be read, and readable ones holding a text.
Files ==
    {[readable |-> FALSE, data |-> [valid |-> FALSE, value |-> NoValue]]}
    \cup {[readable |-> TRUE, data |-> s] : s \in Texts}

QPlain == <<"x">>
QCharacter == kw_personnage
QRegionWorld == kw_re_gion \o <<" ">> \o kw_monde

EngineQueries == {QPlain, QCharacter, QRegionWorld}

QueryBadSets == {{}, {QPlain}}

\* The pieces classified queries are made of.
Pieces ==
    { kw_roi, kw_lieu, kw_endroit, kw_region, kw_empire, kw_empereur, kw_event,
      kw_ordre, kw_monde, <<"R", "O", "I">>, <<"É", "v">>, <<"é", "n", "e", "m", "e", "n", "t">>,
      <<"r", "o">>, <<"i">>, <<" ">>, <<"x">> }

RECURSIVE QueriesOf(_)
QueriesOf(n) ==
    IF n = 0 THEN {<<>>}
    ELSE QueriesOf(n - 1) \cup {p \o q : p \in Pieces, q \in QueriesOf(n - 1)}

\* The queries made of one keyword of the classifier.
KeywordQueries ==
    { kw_personnage, kw_character, kw_he_ros, kw_roi, kw_reine, kw_empereur,
      kw_sultan, kw_archimage, kw_lieu, kw_location, kw_endroit, kw_cite_,
      kw_ville, kw_village, kw_forteresse, kw_re_gion, kw_region, kw_royaume,
      kw_empire, kw_territoire, kw_e_ve_nement, kw_event, kw_quand, kw_guerre,
      kw_bataille, kw_conflit, kw_histoire, kw_faction, kw_guilde,
      kw_organisation, kw_ordre, kw_monde, kw_world, kw_univers }

ClassifiedQueries == QueriesOf(MaxPieces) \cup KeywordQueries

-----------------------------------------------------------------------------
(* State *)

NoDoc == [t |-> "none", v |-> <<>>]
NoQuery == <<"-">>
Unset == "unset"

Idle == [op |-> "none", err |-> NoErr]

LoadOps == {"load_from_file", "load_from_json_str", "load_from_json_value"}

Engine == [items |-> items, index |-> index]

Init ==
    /\ items = <<>>
    /\ index = NoIndex
    /\ source = NoDoc
    /\ failed = FALSE
    /\ last = Idle
    /\ query = NoQuery
    /\ detected = Unset

\* A load has returned r: the engine is r.eng; `source` remembers the
\* document of the last load that returned Ok, `failed` that a load failed,
\* and last.over the document whose corpus the engine held when called.
Loaded(op, input, json, bad, r) ==
    /\ items' = r.eng.items
    /\ index' = r.eng.index
    /\ source' = IF r.err = NoErr THEN json ELSE source
    /\ failed' = (failed \/ r.err # NoErr)
    /\ last' = [op |-> op, input |-> input, bad |-> bad, err |-> r.err,
                over |-> source]
    /\ UNCHANGED <<query, detected>>

LoadFromFile(file, bad) ==
    Loaded("load_from_file", file, file.data.value, bad,
           load_from_file(Engine, file, bad))

LoadFromJsonStr(str, bad) ==
    Loaded("load_from_json_str", str, str.value, bad,
           load_from_json_str(Engine, str, bad))

LoadFromJsonValue(json, bad) ==
    Loaded("load_from_json_value", json, json, bad,
           load_from_json_value(Engine, json, bad))

\* LoreEngine::query
Query(q, top_k, bad) ==
    /\ IF ~index.present
       THEN last' = [op |-> "query", q |-> q, top_k |-> top_k, err |-> ErrNoIndex]
       ELSE IF q \in bad
       THEN last' = [op |-> "query", q |-> q, top_k |-> top_k, err |-> ErrEmbedQuery]
       ELSE \E res \in AnnResults(index, SearchK(detect_item_type_from_query(q), top_k)) :
               last' = [op |-> "query", q |-> q, top_k |-> top_k, err |-> NoErr,
                        res |-> res, out |-> retrieve_context(q, res, items, top_k)]
    /\ UNCHANGED <<items, index, source, failed, query, detected>>

\* LoreEngine::stats
Stats ==
    /\ last' = [op |-> "stats", err |-> NoErr, stats |-> stats(Engine)]
    /\ UNCHANGED <<items, index, source, failed, query, detected>>

Next ==
    \/ \E file \in Files, bad \in BadSets : LoadFromFile(file, bad)
    \/ \E str \in Texts, bad \in BadSets : LoadFromJsonStr(str, bad)
    \/ \E json \in EngineDocs, bad \in BadSets : LoadFromJsonValue(json, bad)
    \/ \E q \in EngineQueries, bad \in QueryBadSets : Query(q, 1, bad)
    \/ Stats

\* The engine under any sequence of loads, queries for one result and stats.
Spec == Init /\ [][Next]_vars

\* One load into a new engine, then one query for up to MaxTopK results.
LoadThenQuery ==
    \/ /\ last = Idle
       /\ \E json \in EngineDocs : LoadFromJsonValue(json, {})
    \/ /\ last.op \in LoadOps
       /\ \E q \in EngineQueries, top_k \in 0..MaxTopK, bad \in QueryBadSets :
             Query(q, top_k, bad)

QuerySpec == Init /\ [][LoadThenQuery]_vars

\* One load into a new engine, of any listed document or of any document of
\* size MaxSize: an array, or an object with a plain or an unusual label.
FirstLoad ==
    /\ last = Idle
    /\ \E bad \in BadSets :
         \/ \E json \in ListedDocs : LoadFromJsonValue(json, bad)
         \/ \E es \in SmallerElems(MaxSize - 1) : LoadFromJsonValue(JArr(es), bad)
         \/ \E l \in PlainLabels, es \in SmallerElems(MaxSize - 1) :
               \E ks \in KeySeqs(Len(es)) :
                  LoadFromJsonValue(JObj(l \o [i \in 1..Len(es) |-> Field(ks[i], es[i])]), bad)
         \/ \E l \in WeirdLabels, es \in SmallerElems(MaxSize - 2) :
               \E ks \in KeySeqs(Len(es)) :
                  LoadFromJsonValue(JObj(l \o [i \in 1..Len(es) |-> Field(ks[i], es[i])]), bad)

LoadSpec == Init /\ [][FirstLoad]_vars

\* The classifier applied to a query.
ClassifyInit ==
    /\ items = <<>>
    /\ index = NoIndex
    /\ source = NoDoc
    /\ failed = FALSE
    /\ last = Idle
    /\ query \in ClassifiedQueries
    /\ detected = Unset

Classify ==
    /\ detected = Unset
    /\ detected' = detect_item_type_from_query(query)
    /\ UNCHANGED <<items, index, source, failed, last, query>>

ClassifySpec == ClassifyInit /\ [][Classify]_vars

-----------------------------------------------------------------------------
(* The JSON tree by positions, as the claims speak of it *)

\* A position is the sequence of steps from the root to a value: a step
\* takes the entry under a key of an object or an element of an array.
KeyStep(key) == [k |-> key, i |-> 0]
ArrStep(i) == [k |-> "[]", i |-> i]

RECURSIVE Positions(_)
Positions(value) ==
    {<<>>} \cup
    IF value.t = "arr"
    THEN UNION {{<<ArrStep(i)>> \o p : p \in Positions(value.v[i])} :
                i \in 1..Len(value.v)}
    ELSE IF value.t = "obj"
    THEN UNION {{<<KeyStep(value.v[i][1])>> \o p : p \in Positions(value.v[i][2])} :
                i \in 1..Len(value.v)}
    ELSE {}

RECURSIVE At(_, _)
At(value, pos) ==
    IF pos = <<>> THEN value
    ELSE IF value.t = "arr" THEN At(value.v[pos[1].i], Tail(pos))
    ELSE At(Get(value.v, pos[1].k), Tail(pos))

ContainerKeys == {"worlds", "regions", "locations", "characters", "events", "factions"}

ContainerKind ==
    [key \in ContainerKeys |->
        CASE key = "worlds" -> "World"
          [] key = "regions" -> "Region"
          [] key = "locations" -> "Location"
          [] key = "characters" -> "Character"
          [] key = "events" -> "Event"
          [] key = "factions" -> "Faction"]

DeclarationRank ==
    [key \in ContainerKeys |->
        CASE key = "worlds" -> 1
          [] key = "regions" -> 2
          [] key = "locations" -> 3
          [] key = "characters" -> 4
          [] key = "events" -> 5
          [] key = "factions" -> 6]

IsArrStep(s) == s.k = "[]"

HasName(value) == value.t = "obj" /\ HasKey(value.v, "name")
IsEntity(value) == HasName(value) /\ Get(value.v, "name").t = "str"
HasBadName(value) == HasName(value) /\ Get(value.v, "name").t # "str"

\* Every key on the way is a container key.
OnContainerPath(pos) ==
    \A n \in 1..Len(pos) : IsArrStep(pos[n]) \/ pos[n].k \in ContainerKeys

\* Some key on the way is not a container key.
UnderUnknownKey(pos) == ~OnContainerPath(pos)

\* The kind of the nearest enclosing container key, Unknown if there is none.
NearestKind(pos) ==
    LET ns == {n \in 1..Len(pos) : ~IsArrStep(pos[n]) /\ pos[n].k \in ContainerKeys}
    IN IF ns = {} THEN "Unknown"
       ELSE ContainerKind[pos[CHOOSE n \in ns : \A m \in ns : m <= n].k]

\* The names of the entities enclosing a position, outermost first.
AncestorNames(json, pos) ==
    LET ns == {n \in 0..(Len(pos) - 1) : IsEntity(At(json, SubSeq(pos, 1, n)))}
        nth(r) == CHOOSE n \in ns : Cardinality({m \in ns : m < n}) = r - 1
    IN [r \in 1..Cardinality(ns) |-> Get(At(json, SubSeq(pos, 1, nth(r))).v, "name").v]

\* Pre-order: a value before the values inside it, array elements in array
\* order, the entries of an object in the declaration order of their keys.
Before(p, q) ==
    /\ p # q
    /\ \/ Len(p) < Len(q) /\ SubSeq(q, 1, Len(p)) = p
       \/ \E d \in 1..Len(p) :
             /\ d <= Len(q)
             /\ SubSeq(p, 1, d - 1) = SubSeq(q, 1, d - 1)
             /\ p[d] # q[d]
             /\ IF IsArrStep(p[d]) THEN p[d].i < q[d].i
                ELSE /\ p[d].k \in ContainerKeys
                     /\ q[d].k \in ContainerKeys
                     /\ DeclarationRank[p[d].k] < DeclarationRank[q[d].k]

EntityPositions(json) == {p \in Positions(json) : IsEntity(At(json, p))}

\* The entities the walk reaches: those on a container path.
WalkedEntities(json) == {p \in EntityPositions(json) : OnContainerPath(p)}

\* The walked entities in pre-order.
WalkOrder(json) ==
    LET W == WalkedEntities(json)
    IN [r \in 1..Cardinality(W) |->
           CHOOSE p \in W : Cardinality({q \in W : Before(q, p)}) = r - 1]

NameAt(json, pos) == Get(At(json, pos).v, "name").v

LoadedOk == source # NoDoc

-----------------------------------------------------------------------------
(* Claims *)

FailedLoad == last.op \in LoadOps /\ last.err # NoErr

\* C1: a load that fails leaves the corpus and the index as they were; the
\* engine holds the corpus and index of the last load that succeeded, and
\* is empty with no index if none has.
C1_FailedLoadKeepsEngine ==
    /\ [](IF LoadedOk
          THEN /\ items = collect_items(source, <<>>, <<>>, "Unknown", {}).out
               /\ index = BuildIndex(items)
          ELSE items = <<>> /\ index = NoIndex)
    /\ [][(last'.op \in LoadOps /\ last'.err # NoErr)
             => (items' = items /\ index' = index)]_vars

\* A load failed, after items had been extracted from its document, on an
\* engine that held a corpus.
C1_Witness ==
    /\ FailedLoad
    /\ LoadedOk
    /\ last.op = "load_from_json_value"
    /\ last.err = ErrName
    /\ WalkedEntities(last.input) # {}

SegmentCount(parent_path) ==
    CountOccurrences(parent_path, Sep) + (IF parent_path # <<>> THEN 1 ELSE 0)

\* C3 as stated: for every item of every document, depth is the number of
\* " > " in parent_path, plus one if parent_path is not empty.
C3_DepthCountsSeparators ==
    \A n \in 1..Len(items) :
        items[n].hierarchy_level = SegmentCount(items[n].parent_path)

\* No entity of the document has an empty name or a name with '>' in it.
PlainNames(json) ==
    \A p \in EntityPositions(json) :
        /\ NameAt(json, p) # <<>>
        /\ \A c \in 1..Len(NameAt(json, p)) : NameAt(json, p)[c] # ">"

\* C3, amended: the depth of an item is the number of entities enclosing
\* it; it is the number of " > " in parent_path, plus one if parent_path is
\* not empty, when no name in the document is empty or contains '>'.
C3_DepthCountsAncestors ==
    LoadedOk =>
        \A n \in 1..Len(items) :
            /\ n <= Cardinality(WalkedEntities(source)) =>
                 items[n].hierarchy_level =
                     Len(AncestorNames(source, WalkOrder(source)[n]))
            /\ PlainNames(source) =>
                 items[n].hierarchy_level = SegmentCount(items[n].parent_path)

\* An item two entities deep in a document of plain names.
C3_Witness ==
    /\ LoadedOk
    /\ PlainNames(source)
    /\ \E n \in 1..Len(items) : items[n].hierarchy_level = 2

\* C4: the kind of every item is that of the nearest container key
\* enclosing it, Unknown if there is none.
C4_KindOfNearestContainer ==
    LoadedOk =>
        \A n \in 1..Len(items) :
            n <= Cardinality(WalkedEntities(source)) =>
                items[n].item_type = NearestKind(WalkOrder(source)[n])

\* An item inside an array inside an entity of another kind.
C4_Witness ==
    /\ LoadedOk
    /\ \E n \in 1..Len(items), m \in 1..Len(items) :
          /\ items[n].hierarchy_level = 1
          /\ items[m].hierarchy_level = 0
          /\ items[m].item_type \notin {"Unknown", items[n].item_type}
          /\ items[n].item_type # "Unknown"
    /\ \E p \in WalkedEntities(source) :
          \E d \in 1..Len(p) : IsArrStep(p[d]) /\ d > 1

\* C5: ids are 0..|items|-1 in order, and the items are the walked
\* entities in pre-order, container keys in declaration order.
C5_IdsInDeclarationOrder ==
    LoadedOk =>
        /\ Len(items) = Cardinality(WalkedEntities(source))
        /\ \A n \in 1..Len(items) :
              LET p == WalkOrder(source)[n]
              IN /\ items[n].id = n - 1
                 /\ items[n].name = NameAt(source, p)
                 /\ items[n].item_type = NearestKind(p)
                 /\ items[n].parent_path = Join(AncestorNames(source, p), Sep)

\* A corpus from an object whose container keys are not in declaration
\* order in the JSON text, each holding an entity.
C5_Witness ==
    /\ LoadedOk
    /\ Len(items) >= 2
    /\ source.t = "obj"
    /\ \E a \in 1..Len(source.v), b \in 1..Len(source.v) :
          /\ a < b
          /\ source.v[a][1] \in ContainerKeys
          /\ source.v[b][1] \in ContainerKeys
          /\ DeclarationRank[source.v[b][1]] < DeclarationRank[source.v[a][1]]
          /\ IsEntity(source.v[a][2])
          /\ IsEntity(source.v[b][2])

\* The keyword table of the classifier, by priority.
GroupKind == <<"Character", "Location", "Region", "Event", "Faction", "World">>

GroupKeywords ==
    << {kw_personnage, kw_character, kw_he_ros, kw_roi, kw_reine, kw_empereur,
        kw_sultan, kw_archimage},
       {kw_lieu, kw_location, kw_endroit, kw_cite_, kw_ville, kw_village,
        kw_forteresse},
       {kw_re_gion, kw_region, kw_royaume, kw_empire, kw_territoire},
       {kw_e_ve_nement, kw_event, kw_quand, kw_guerre, kw_bataille, kw_conflit,
        kw_histoire},
       {kw_faction, kw_guilde, kw_organisation, kw_ordre},
       {kw_monde, kw_world, kw_univers} >>

\* The groups with a keyword in the lowercased query.
GroupsIn(q) ==
    LET lowered == [i \in 1..Len(q) |-> LowerChar(q[i])]
    IN {g \in 1..Len(GroupKeywords) : \E kw \in GroupKeywords[g] : Contains(lowered, kw)}

\* C6: the classifier returns the kind of the first group, in priority
\* order, with a keyword in the lowercased query, and None exactly when no
\* group has one.
C6_FirstGroupWins ==
    detected # Unset =>
        IF GroupsIn(query) = {} THEN detected = None
        ELSE detected = GroupKind[CHOOSE g \in GroupsIn(query) :
                                      \A h \in GroupsIn(query) : g <= h]

\* A query with keywords of two groups was classified.
C6_Witness ==
    /\ detected = "Character"
    /\ Cardinality(GroupsIn(query)) >= 2

HitLines(out) == SelectSeq(out, LAMBDA l : l.line = "hit")

\* C7: the hit lines of a query are the first top_k of the ANN hits whose
\* item is of the classified kind (all hits if there is none), in the
\* order of the hits, ranked 1..n; the ANN was asked for 3*top_k hits with
\* a filter and top_k without.
C7_FirstMatchingHits ==
    (last.op = "query" /\ last.err = NoErr) =>
        LET f == detect_item_type_from_query(last.q)
            M == {i \in 1..Len(last.res) :
                     f = None \/ items[last.res[i].d_id + 1].item_type = f}
            nth(r) == CHOOSE m \in M : Cardinality({x \in M : x < m}) = r - 1
            H == HitLines(last.out)
        IN /\ Len(last.res) <= (IF f # None THEN 3 * last.top_k ELSE last.top_k)
           /\ Len(H) = (IF Cardinality(M) < last.top_k THEN Cardinality(M)
                        ELSE last.top_k)
           /\ \A r \in 1..Len(H) :
                 /\ H[r].rank = r
                 /\ H[r].item = items[last.res[nth(r)].d_id + 1]
                 /\ H[r].distance = last.res[nth(r)].distance
                 /\ f # None => H[r].item.item_type = f
           /\ \A r \in 1..Len(H), s \in 1..Len(H) :
                 r < s => H[r].distance <= H[s].distance

\* A filtered query whose nearest hit is of another kind and whose hits of
\* the kind are more than top_k.
C7_Witness ==
    /\ last.op = "query"
    /\ last.err = NoErr
    /\ detect_item_type_from_query(last.q) = "Character"
    /\ Len(last.res) = 3
    /\ items[last.res[1].d_id + 1].item_type # "Character"
    /\ items[last.res[2].d_id + 1].item_type = "Character"
    /\ items[last.res[3].d_id + 1].item_type = "Character"
    /\ last.top_k = 1
    /\ Len(HitLines(last.out)) = 1

\* C8: a query fails with the no-index error exactly when no load has
\* succeeded so far.
C8_NoIndexIffNeverLoaded ==
    last.op = "query" => ((last.err = ErrNoIndex) <=> ~LoadedOk)

\* A query failed with the no-index error after a load had failed.
C8_Witness ==
    /\ last.op = "query"
    /\ last.err = ErrNoIndex
    /\ failed

C10_IndexMatchesCorpus ==
    /\ index.present <=> Len(items) >= 1
    /\ {index.nodes[n][2] : n \in 1..Len(index.nodes)}
          = {items[n].id : n \in 1..Len(items)}
    /\ \A n \in 1..Len(index.nodes) :
          /\ index.nodes[n][2] + 1 \in 1..Len(items)
          /\ items[index.nodes[n][2] + 1].id = index.nodes[n][2]

\* An engine with an index over three items, after a load that failed.
C10_Witness ==
    /\ index.present
    /\ Len(items) = 3
    /\ FailedLoad

\* The corpus a document describes: one item per walked entity, in walk
\* order, numbered from 0, without the vectors.
CorpusOf(json) ==
    LET W == WalkOrder(json)
    IN [n \in 1..Len(W) |->
           [id |-> n - 1,
            name |-> NameAt(json, W[n]),
            text |-> EntityText(At(json, W[n]).v),
            item_type |-> NearestKind(W[n]),
            parent_path |-> Join(AncestorNames(json, W[n]), Sep),
            hierarchy_level |-> Len(AncestorNames(json, W[n]))]]

\* The corpus of the engine, without the vectors.
CorpusView(its) ==
    [n \in 1..Len(its) |->
        [id |-> its[n].id, name |-> its[n].name, text |-> its[n].text,
         item_type |-> its[n].item_type, parent_path |-> its[n].parent_path,
         hierarchy_level |-> its[n].hierarchy_level]]

SuccessfulLoad == last.op \in LoadOps /\ last.err = NoErr

\* C11: after a successful load the corpus (ids, names, texts, kinds,
\* parent paths, depths) is determined by the loaded document alone, whatever
\* the engine held before, with ids from 0; and a successful load of the
\* document the engine already holds leaves corpus and index as they were.
C11_LoadReplacesCorpus ==
    /\ [](SuccessfulLoad => CorpusView(items) = CorpusOf(source))
    /\ [][(last'.op \in LoadOps /\ last'.err = NoErr /\ source' = source)
             => (items' = items /\ index' = index)]_vars

\* A document was loaded over the larger corpus of another document.
C11_Witness ==
    /\ SuccessfulLoad
    /\ last.over # NoDoc
    /\ last.over # source
    /\ Len(CorpusOf(last.over)) > Len(items)
    /\ items[1].id = 0

RECURSIVE SumValues(_)
SumValues(f) ==
    IF DOMAIN f = {} THEN 0
    ELSE LET k == CHOOSE x \in DOMAIN f : TRUE
         IN f[k] + SumValues([x \in DOMAIN f \ {k} |-> f[x]])

ItemsOfKind(kind) == {n \in 1..Len(items) : items[n].item_type = kind}

\* C12: whenever stats is called, total_items is the number of items of
\* the corpus, the counts per kind add up to it, and each kind has for count
\* the number of items of that kind (kinds without items have no entry).
C12_StatsCountItems ==
    last.op = "stats" =>
        /\ last.stats.total_items = Len(items)
        /\ SumValues(last.stats.type_counts) = Len(items)
        /\ \A kind \in ItemType :
              IF ItemsOfKind(kind) = {}
              THEN kind \notin DOMAIN last.stats.type_counts
              ELSE /\ kind \in DOMAIN last.stats.type_counts
                   /\ last.stats.type_counts[kind] = Cardinality(ItemsOfKind(kind))
        /\ DOMAIN last.stats.type_counts \subseteq ItemType

\* stats was called on a corpus of two kinds, one with two items, after a
\* load had failed.
C12_Witness ==
    /\ last.op = "stats"
    /\ failed
    /\ Len(items) = 3
    /\ Cardinality(ItemsOfKind("Character")) = 2
    /\ last.stats.type_counts["Character"] = 2
    /\ last.stats.type_counts["Faction"] = 1

\* stats was called on an engine that never loaded, and after failed loads only.
C12_WitnessEmpty ==
    /\ last.op = "stats"
    /\ items = <<>>
    /\ failed

LinesAt(out, line) == {n \in 1..Len(out) : out[n].line = line}

\* C13: in the output of a query, the no-relevant-items line is there
\* exactly when the search returned no hit, and then it ends the output,
\* after the filter line if there is one; the none-of-the-requested-type
\* line is there exactly when a kind was detected, the search returned hits
\* and none of them is of that kind; the filter line is there exactly when
\* the query holds a keyword of some group, and is then the first line.
C13_EmptyCases ==
    (last.op = "query" /\ last.err = NoErr) =>
        LET out == last.out
            filtered == GroupsIn(last.q) # {}
            first == IF filtered THEN 2 ELSE 1
            kind == GroupKind[CHOOSE g \in GroupsIn(last.q) :
                                 \A h \in GroupsIn(last.q) : g <= h]
        IN /\ LinesAt(out, "Filter: {} only") = (IF filtered THEN {1} ELSE {})
           /\ filtered => out[1].kind = kind
           /\ LinesAt(out, "No relevant items found.")
                 = (IF last.res = <<>> THEN {first} ELSE {})
           /\ last.res = <<>> => Len(out) = first
           /\ LinesAt(out, "No items of the requested type found.")
                 = (IF /\ filtered
                       /\ last.res # <<>>
                       /\ \A n \in 1..Len(last.res) :
                             items[last.res[n].d_id + 1].item_type # kind
                    THEN {first} ELSE {})
           /\ ~filtered =>
                 /\ LinesAt(out, "No items of the requested type found.") = {}
                 /\ LinesAt(out, "Filter: {} only") = {}

\* A query for regions found two hits, neither a region.
C13_Witness ==
    /\ last.op = "query"
    /\ last.err = NoErr
    /\ Len(last.res) = 2
    /\ last.top_k >= 1
    /\ last.out = <<HeaderLine("Region"), NoneOfTypeLine>>

\* A query with a detected kind, and one without, found no hit at all.
C13_WitnessNoHit ==
    /\ last.op = "query"
    /\ last.err = NoErr
    /\ last.top_k >= 1
    /\ last.out \in {<<HeaderLine("Character"), NoRelevantLine>>, <<NoRelevantLine>>}

\* The groups that list a text as a keyword.
GroupsListing(q) == {g \in 1..Len(GroupKeywords) : q \in GroupKeywords[g]}

\* C15 as stated: a query that is one keyword of the table is classified
\* as the kind of the keyword's group.
C15_EveryKeywordSuffices ==
    detected # Unset =>
        \A g \in GroupsListing(query) : detected = GroupKind[g]

\* The only keyword classified under another group is "endroit", which
\* holds "roi" and goes to Character.
C15_OnlyEndroitShadowed ==
    (detected # Unset /\ GroupsListing(query) # {}) =>
        IF query = kw_endroit THEN detected = "Character"
        ELSE \A g \in GroupsListing(query) : detected = GroupKind[g]

\* The query "endroit" was classified.
C15_Witness ==
    /\ query = kw_endroit
    /\ detected # Unset

====
